---- MODULE Spec2Model ----
(***************************************************************************)
(* Model of flask_app/src/item_management.py: the in-memory cache, the     *)
(* in-memory repository and the Flask handlers that combine them           *)
(* (cache-aside reads, invalidation on writes).                            *)
(*                                                                         *)
(* Python objects are modelled with their aliasing: a cached or local      *)
(* value is tagged `live` when it IS the dict stored in the repository     *)
(* (InMemoryRepository.create returns the stored dict itself), and every   *)
(* in-place item.update(patch) is applied to all live values of that key.  *)
(* Strings are sequences of tokens where the code concatenates them        *)
(* (cache_item_key).                                                       *)
(***************************************************************************)
EXTENDS Integers, Sequences, FiniteSets, TLC

(* ---------------- bounds of the exploration ---------------- *)
MaxCreates == 2     \* number of uuid4() identifiers generated
MaxReqs == 4        \* number of requests started by the thread pool
MaxSeqReqs == 5     \* number of requests started when they run one at a time
TickStep == 31      \* seconds the clock advances in one Tick
MaxClock == 62      \* last instant explored
MaxRepoOps == 4     \* number of calls and mutations made by a direct caller of the repository
MaxNested == 1      \* number of nested JSON arrays the caller's payloads contain
MaxCacheOps == 3    \* number of calls made by a direct caller of the cache
MaxCacheClock == 4  \* last instant of that caller's clock, which advances by 1
MaxLockOps == 5     \* number of repository calls made by the threads that contend for its lock
MaxCacheLockOps == 4  \* number of cache calls made by the threads that contend for its lock
MaxHandlers == 3      \* number of handlers whose component calls are followed lock by lock

(* ---------------- program constants ---------------- *)
LIST_CACHE_TTL == 30
ITEM_CACHE_TTL == 60
LIST_CACHE_KEY == <<"items:list">>
ITEM_CACHE_PREFIX == <<"item:">>

\* ITEM_CACHE_PREFIX + item_id
cache_item_key(item_id) == ITEM_CACHE_PREFIX \o <<item_id>>

\* str(uuid4()): the n-th identifier generated is a string no earlier call returned
uuid4(n) == <<"k1", "k2", "k3", "k4">>[n]

Threads == {"t1", "t2"}
Keys == {uuid4(n) : n \in 1..MaxCreates}
ForeignId == "x"        \* a string that is no generated identifier
NonStrId == "<7>"       \* stands for a JSON value that is not a str (a number)
None == "None"
Empty == [z \in {} |-> z]

IsStr(v) == v # NonStrId

\* JSON objects a client can send: an optional "name" and an optional "id"
Doc(idv, namev) ==
    (IF idv = None THEN Empty ELSE ("id" :> idv))
        @@ (IF namev = None THEN Empty ELSE ("name" :> namev))

VARIABLES
    data,       \* InMemoryRepository._data : identifier -> record
    nextId,     \* number of uuid4() values generated so far
    store,      \* InMemoryCache._store : key -> [value, expiry]
    now,        \* time()
    pc,         \* per thread: position inside the handler it runs
    loc,        \* per thread: the handler's locals and its history
    hist,       \* history: _data after each repository mutation, oldest first
    ack,        \* history: the mutations whose write handler has returned success
    last,       \* the response most recently returned
    prev,       \* the response returned before it (kept when requests run one at a time)
    known,      \* the identifiers some response has shown to the clients
    nreq,       \* number of requests that may still be started
    at,         \* when requests run one at a time: the instants of the last responses
    fresh,      \* when requests run one at a time: the cache keys not read since a clear
    heap,       \* the nested JSON arrays records refer to: reference -> contents
    held,       \* what a direct caller of the repository holds: slot -> returned value
    obs,        \* what the caller's last call or mutation did
    nops,       \* number of calls and mutations the caller has made
    issued,     \* history: the "id" of the records create has returned, oldest first
    deleted,    \* history: the identifiers for which delete has returned True
    lk,         \* InMemoryRepository._lock: the RLock's owner and recursion count
    rpc,        \* per thread: the repository method it is inside of
    rl,         \* per thread: that method's arguments and progress
    res,        \* the value the last repository call returned
    applied,    \* the updates that have returned a record
    lops,       \* number of repository calls started
    cobs,       \* what the last call of a direct caller of the cache did
    wr,         \* history: per key, the last set not followed by a delete or a clear
    cops,       \* number of calls that caller has made
    clk,        \* InMemoryCache._lock: the RLock's owner and recursion count
    cpc,        \* per thread: the cache method it is inside of, and where
    cl,         \* per thread: that method's arguments and locals
    cgot,       \* what the last cache get that returned did
    clops,      \* number of cache calls started
    hpc,        \* per thread: whether it runs a handler's sequence of calls
    todo,       \* per thread: the component calls its handler has still to make
    stack,      \* per thread: the component methods it is inside of, innermost first
    hleft       \* number of handlers that may still be started

serviceVars == <<store, now, pc, loc, hist, ack, last, prev, known, nreq, at, fresh>>
callerVars == <<heap, held, obs, nops, issued, deleted>>
lockVars == <<lk, rpc, rl, res, applied, lops>>
cacheVars == <<cobs, wr, cops>>
threadVars == <<clk, cpc, cl, cgot, clops, hpc, todo, stack, hleft>>
vars == <<data, nextId, store, now, pc, loc, hist, ack, last, prev, known, nreq, at, fresh,
          heap, held, obs, nops, issued, deleted, lk, rpc, rl, res, applied, lops,
          cobs, wr, cops, clk, cpc, cl, cgot, clops, hpc, todo, stack, hleft>>

(* ---------------- values crossing the component boundaries ------------- *)
\* A value is a record object or a listing of record copies. kind says which,
\* recs maps the identifier(s) the records are stored under to the records, and
\* live says that the record object is the very dict stored in _data.
\* NoVal stands for Python's None where a value is expected.
NoVal == [kind |-> "none", recs |-> Empty, live |-> FALSE]
ItemVal(k, rec, isLive) == [kind |-> "item", recs |-> (k :> rec), live |-> isLive]
ItemOf(v) == v.recs[CHOOSE k \in DOMAIN v.recs : TRUE]

\* the in-place item.update(patch) seen through every alias of the stored dict
Touch(v, k, rec) ==
    IF v.live /\ k \in DOMAIN v.recs THEN ItemVal(k, rec, TRUE) ELSE v

(* ---------------- InMemoryCache ---------------- *)
\* CacheSet with a plausible bug: the expiry is the ttl, not time() + ttl
CacheSet_expiry_is_ttl(s, key, value, ttl_seconds, t) ==
    (key :> [value |-> value,
             expiry |-> IF ttl_seconds # 0 /\ ttl_seconds > 0 THEN ttl_seconds ELSE 0])
        @@ s

\* CacheSet with a plausible bug: an entry already stored keeps its expiry
CacheSet_keeps_expiry(s, key, value, ttl_seconds, t) ==
    (key :> [value |-> value,
             expiry |-> IF key \in DOMAIN s THEN s[key].expiry
                        ELSE IF ttl_seconds # 0 /\ ttl_seconds > 0 THEN t + ttl_seconds ELSE 0])
        @@ s

\* expiry = time() + ttl_seconds if ttl_seconds and ttl_seconds > 0 else 0
CacheSet(s, key, value, ttl_seconds, t) ==
    (key :> [value |-> value,
             expiry |-> IF ttl_seconds # 0 /\ ttl_seconds > 0 THEN t + ttl_seconds ELSE 0])
        @@ s

\* Expired with a plausible bug: an expiry of 0 is compared with the clock too
Expired_zero_is_an_instant(s, key, t) ==
    key \in DOMAIN s /\ t > s[key].expiry

\* Expired with a plausible bug: the entry is dead from its expiry instant on
Expired_at_expiry(s, key, t) ==
    key \in DOMAIN s /\ s[key].expiry # 0 /\ t >= s[key].expiry

\* if expiry and time() > expiry
Expired(s, key, t) ==
    key \in DOMAIN s /\ s[key].expiry # 0 /\ t > s[key].expiry

\* the value get returns, NoVal (Python's None) for a miss
CacheGet(s, key, t) ==
    IF key \notin DOMAIN s \/ Expired(s, key, t) THEN NoVal ELSE s[key].value

\* CacheGetStore with a plausible bug: a get sweeps every expired entry
CacheGetStore_sweeps(s, key, t) ==
    [k \in {x \in DOMAIN s : ~Expired(s, x, t)} |-> s[k]]

\* CacheGetStore with a plausible bug: a hit pushes the entry's expiry back
CacheGetStore_slides(s, key, t) ==
    IF Expired(s, key, t) THEN [k \in DOMAIN s \ {key} |-> s[k]]
    ELSE IF key \in DOMAIN s /\ s[key].expiry # 0 THEN [s EXCEPT ![key].expiry = @ + 1]
    ELSE s

\* the store get leaves behind: an expired entry is purged
CacheGetStore(s, key, t) ==
    IF Expired(s, key, t) THEN [k \in DOMAIN s \ {key} |-> s[k]] ELSE s

CacheDelete(s, key) ==
    IF key \in DOMAIN s THEN [k \in DOMAIN s \ {key} |-> s[k]] ELSE s

\* CacheClear with a plausible bug: only the listing is dropped
CacheClear_list_only(s) == [k \in DOMAIN s \ {LIST_CACHE_KEY} |-> s[k]]

\* self._store.clear()
CacheClear(s) == Empty

\* a direct caller of the cache: its keys, values and ttl arguments
CacheKeys == {LIST_CACHE_KEY, cache_item_key(uuid4(1))}
CacheValues == {ItemVal(uuid4(1), Doc(None, n), FALSE) : n \in {"a", "b"}}
\* ttl_seconds arguments; given is FALSE for a call without the argument
NoTtl == [given |-> FALSE, secs |-> 0]
CacheTtls == {[given |-> TRUE, secs |-> n] : n \in {-1, 0, 1, 2}} \cup {NoTtl}
\* ttl_seconds: float = 0
TtlArg(ttl) == IF ttl.given THEN ttl.secs ELSE 0
Persistent(ttl) == TtlArg(ttl) <= 0

\* on: a set is in force; over: what the set found under the key
\* read: a get has returned the value since
NoSet == [on |-> FALSE, value |-> NoVal, ttl |-> NoTtl, at |-> 0, over |-> None, read |-> FALSE]
NoCacheObs == [op |-> None, key |-> None, val |-> NoVal, at |-> 0, set |-> NoSet,
               before |-> Empty, after |-> Empty]
Found(s, key, t) ==
    IF key \notin DOMAIN s THEN "nothing"
    ELSE IF Expired(s, key, t) THEN "expired"
    ELSE IF s[key].expiry = 0 THEN "persistent" ELSE "expiring"

(* ---------------- InMemoryRepository ---------------- *)
\* {"id": _id, **payload}: a later key of a dict display wins
RepoCreateItem(id, payload) == payload @@ ("id" :> id)

\* return item: create hands out the dict it has just stored, not a copy
RepoCreateReturn(id, item) == ItemVal(id, item, TRUE)

\* RepoUpdateItem with a plausible bug: the record is replaced by the patch
\* (and its id) instead of being merged with it
RepoUpdateItem_replaces(item, patch) == patch @@ ("id" :> item["id"])

\* item.update(patch)
RepoUpdateItem(item, patch) == patch @@ item

\* return item.copy()
RepoUpdateReturn(id, item) == ItemVal(id, item, FALSE)

\* {k: v.copy() for k, v in self._data.items()}
RepoListAll(d) == [kind |-> "list", recs |-> d, live |-> FALSE]

\* RepoGet with a plausible bug: the stored dict is returned, not a copy
RepoGet_no_copy(d, id) ==
    IF id \in DOMAIN d THEN ItemVal(id, d[id], TRUE) ELSE NoVal

\* item.copy() if item else None
RepoGet(d, id) ==
    IF id \in DOMAIN d THEN ItemVal(id, d[id], FALSE) ELSE NoVal

\* RepoDelete with a plausible bug: the record stays in _data
RepoDelete_keeps_record(d, id) == d

\* del self._data[_id]
RepoDelete(d, id) == [k \in DOMAIN d \ {id} |-> d[k]]

(* ---------------- a direct caller of the repository ---------------- *)
\* The caller keeps the values the repository returned to it in two slots and
\* may mutate them, as Python lets any holder of a dict or a list do.  A field
\* value that is a key of heap is a reference to a nested JSON array: a shallow
\* dict.copy() copies the reference, not the array.
Slots == {"h1", "h2"}
NestedRefs == {<<"n1", "n2", "n3">>[n] : n \in 1..MaxNested}
NoHeld == [val |-> NoVal, src |-> None]
NoObs == [op |-> None, src |-> None, depth |-> None, key |-> None, payload |-> Empty,
          ret |-> Empty, stored |-> Empty, got |-> Empty,
          before |-> Empty, ok |-> FALSE, gone |-> FALSE,
          selfChanged |-> FALSE, repoChanged |-> FALSE, otherChanged |-> FALSE]

\* what a record shows when it is read: nested references followed
View(h, rec) == [f \in DOMAIN rec |-> IF rec[f] \in DOMAIN h THEN h[rec[f]] ELSE rec[f]]
RepoView(d, h) == [k \in DOMAIN d |-> View(h, d[k])]
HeldView(x, h) == [k \in DOMAIN x.val.recs |-> View(h, x.val.recs[k])]

\* the caller's first action on a value: what changed besides the value itself
Mutation(s, depth, d2, h2, held2) ==
    [NoObs EXCEPT !.op = "mutate", !.src = held[s].src, !.depth = depth,
                  !.selfChanged = HeldView(held2[s], h2) # HeldView(held[s], heap),
                  !.repoChanged = RepoView(d2, h2) # RepoView(data, heap),
                  !.otherChanged = \E o \in Slots \ {s} :
                                      HeldView(held2[o], h2) # HeldView(held[o], heap)]

(* ---------------- threading.RLock ---------------- *)
Unlocked == [owner |-> None, count |-> 0]

\* CanAcquire with a plausible bug: the method body is not guarded by the lock
CanAcquire_no_lock(l, t) == TRUE

\* with self._lock: a thread enters when no other thread owns the lock
CanAcquire(l, t) == l.owner \in {None, t}

Acquire(l, t) == [owner |-> t, count |-> IF l.owner = t THEN l.count + 1 ELSE 1]
Release(l, t) == IF l.count <= 1 THEN Unlocked ELSE [l EXCEPT !.count = @ - 1]

\* a thread outside every repository method; no value returned yet
NoCall == [op |-> None, id |-> None, patch |-> Empty, todo |-> {}]
NoRes == [op |-> None, id |-> None, val |-> NoVal]

\* a thread outside every cache method; entry: what get read from _store
NoEntry == [value |-> NoVal, expiry |-> 0]
NoKey == <<>>
NoCacheCall == [op |-> None, key |-> NoKey, value |-> NoVal, expiry |-> 0, entry |-> NoEntry]
\* by, key, val, at: the get that returned last, its value and the time() it read;
\* entry: what it read under the key; purged, removed: whether it deleted, and what;
\* raised: its del found no such key; rivals: the calls then waiting for the lock
NoGot == [by |-> None, key |-> NoKey, val |-> NoVal, at |-> 0, entry |-> NoEntry,
          purged |-> FALSE, removed |-> NoEntry, raised |-> FALSE, rivals |-> {}]

(* ---------------- handler bookkeeping ---------------- *)
\* op, id: the request; val: the handler's local (item, updated, data);
\* wrote: index in hist of the handler's own repository mutation;
\* need: index in hist of the newest mutation acknowledged before the request
\* started (for GET /items/<id>: by a PUT of that id), 0 when there is none;
\* gone: a DELETE of the id had returned 200 before the request started;
\* eff: what the handler's own steps changed; log: the component calls it made.
NoLoc == [op |-> None, id |-> None, val |-> NoVal, need |-> 0, gone |-> FALSE,
          wrote |-> 0, eff |-> {}, log |-> <<>>]
NoResp == [op |-> None, id |-> None, status |-> 0, cached |-> FALSE, val |-> NoVal,
           need |-> 0, gone |-> FALSE, eff |-> {}, log |-> <<>>]
\* sent: when last was returned; before: when prev was returned;
\* start: when the newest request started
NoTimes == [sent |-> 0, before |-> 0, start |-> 0]
NoAck == [any |-> 0, put |-> [k \in Keys |-> 0], del |-> {}]

Max(a, b) == IF a > b THEN a ELSE b

\* what one step of a handler did to the two components
Effects(d1, d2, s1, s2, t) ==
    (IF d2 # d1 THEN {"repo"} ELSE {})
        \cup (IF s2 = s1 THEN {}
              ELSE IF \E key \in DOMAIN s1 : Expired(s1, key, t) /\ s2 = CacheGetStore(s1, key, t)
                   THEN {"purge"} ELSE {"cache"})

Resp(l, status, cached, val) ==
    [op |-> l.op, id |-> l.id, status |-> status, cached |-> cached, val |-> val,
     need |-> l.need, gone |-> l.gone, eff |-> l.eff, log |-> l.log]

\* A client cannot guess a uuid4: it names an identifier in a URL or a body only
\* after a response has shown it a record carrying that identifier as its "id".
Disclosed(val) == {k \in DOMAIN val.recs : val.recs[k]["id"] = k}
KnownIds == known \cup {ForeignId}
ClientIdValues == KnownIds \cup {NonStrId}
\* request bodies explored: a POST names the item and may carry an "id";
\* a PUT renames the item or overwrites its "id"
Payloads == {Doc(i, "a") : i \in ClientIdValues \cup {None}}
Patches == {Doc(None, "b"), Doc(ForeignId, None)}

AckedPut(id) == IF id \in Keys THEN ack.put[id] ELSE 0

Begin(t) == pc[t] = "idle" /\ nreq > 0

(* ---------------- POST /items ---------------- *)
\* line 150: item = repo.create(payload)
create_item_repo(t, payload) ==
    /\ Begin(t)
    /\ nextId < MaxCreates
    /\ LET id == uuid4(nextId + 1)
           item == RepoCreateItem(id, payload)
       IN  /\ data' = (id :> item) @@ data
           /\ nextId' = nextId + 1
           /\ hist' = Append(hist, data')
           /\ loc' = [loc EXCEPT ![t] =
                        [NoLoc EXCEPT !.op = "POST", !.id = id,
                                      !.val = RepoCreateReturn(id, item),
                                      !.wrote = Len(hist'),
                                      !.eff = Effects(data, data', store, store, now),
                                      !.log = <<"repo.create">>]]
    /\ pc' = [pc EXCEPT ![t] = "c2"]
    /\ nreq' = nreq - 1
    /\ UNCHANGED <<store, now, ack, last>>

\* line 153: cache.delete(LIST_CACHE_KEY)
create_item_invalidate(t) ==
    /\ pc[t] = "c2"
    /\ store' = CacheDelete(store, LIST_CACHE_KEY)
    /\ loc' = [loc EXCEPT ![t].eff = @ \cup Effects(data, data, store, store', now),
                          ![t].log = Append(@, "cache.delete")]
    /\ pc' = [pc EXCEPT ![t] = "c3"]
    /\ UNCHANGED <<data, nextId, now, hist, ack, last, nreq>>

\* lines 156-158: cache.set(cache_item_key(item["id"]), item, ITEM_CACHE_TTL); return 201.
\* "item:" + item["id"] raises TypeError when the id is not a str: the request ends in a 500.
create_item_prime(t) ==
    /\ pc[t] = "c3"
    /\ LET item == loc[t].val
           idv == ItemOf(item)["id"]
       IN  IF IsStr(idv)
           THEN /\ store' = CacheSet(store, cache_item_key(idv), item, ITEM_CACHE_TTL, now)
                /\ last' = Resp([loc[t] EXCEPT !.eff = @ \cup Effects(data, data, store, store', now),
                                               !.log = Append(@, "cache.set")],
                                201, FALSE, item)
                /\ ack' = [ack EXCEPT !.any = Max(@, loc[t].wrote)]
           ELSE /\ store' = store
                /\ last' = Resp(loc[t], 500, FALSE, NoVal)
                /\ ack' = ack
    /\ pc' = [pc EXCEPT ![t] = "idle"]
    /\ loc' = [loc EXCEPT ![t] = NoLoc]
    /\ UNCHANGED <<data, nextId, now, hist, nreq>>

(* ---------------- GET /items ---------------- *)
\* lines 164-166: cached = cache.get(LIST_CACHE_KEY); a hit returns it
list_items_cache(t) ==
    /\ Begin(t)
    /\ nreq' = nreq - 1
    /\ store' = CacheGetStore(store, LIST_CACHE_KEY, now)
    /\ LET cached == CacheGet(store, LIST_CACHE_KEY, now)
           l == [NoLoc EXCEPT !.op = "LIST",
                              !.need = ack.any,
                              !.eff = Effects(data, data, store, store', now),
                              !.log = <<"cache.get">>]
       IN  IF cached # NoVal
           THEN /\ last' = Resp(l, 200, TRUE, cached)
                /\ UNCHANGED <<pc, loc>>
           ELSE /\ loc' = [loc EXCEPT ![t] = l]
                /\ pc' = [pc EXCEPT ![t] = "l2"]
                /\ last' = last
    /\ UNCHANGED <<data, nextId, now, hist, ack>>

\* line 169: data = repo.list_all()
list_items_repo(t) ==
    /\ pc[t] = "l2"
    /\ loc' = [loc EXCEPT ![t].val = RepoListAll(data),
                          ![t].log = Append(@, "repo.list_all")]
    /\ pc' = [pc EXCEPT ![t] = "l3"]
    /\ UNCHANGED <<data, nextId, store, now, hist, ack, last, nreq>>

\* list_items_set with a plausible bug: the listing is cached without a ttl
list_items_set_no_ttl(t) ==
    /\ pc[t] = "l3"
    /\ store' = CacheSet(store, LIST_CACHE_KEY, loc[t].val, 0, now)
    /\ last' = Resp([loc[t] EXCEPT !.eff = @ \cup Effects(data, data, store, store', now),
                                   !.log = Append(@, "cache.set")],
                    200, FALSE, loc[t].val)
    /\ pc' = [pc EXCEPT ![t] = "idle"]
    /\ loc' = [loc EXCEPT ![t] = NoLoc]
    /\ UNCHANGED <<data, nextId, now, hist, ack, nreq>>

\* lines 170-171: cache.set(LIST_CACHE_KEY, data, LIST_CACHE_TTL); return 200
list_items_set(t) ==
    /\ pc[t] = "l3"
    /\ store' = CacheSet(store, LIST_CACHE_KEY, loc[t].val, LIST_CACHE_TTL, now)
    /\ last' = Resp([loc[t] EXCEPT !.eff = @ \cup Effects(data, data, store, store', now),
                                   !.log = Append(@, "cache.set")],
                    200, FALSE, loc[t].val)
    /\ pc' = [pc EXCEPT ![t] = "idle"]
    /\ loc' = [loc EXCEPT ![t] = NoLoc]
    /\ UNCHANGED <<data, nextId, now, hist, ack, nreq>>

(* ---------------- GET /items/<item_id> ---------------- *)
\* lines 176-179: cached = cache.get(key); a hit returns it
get_item_cache(t, item_id) ==
    /\ Begin(t)
    /\ nreq' = nreq - 1
    /\ store' = CacheGetStore(store, cache_item_key(item_id), now)
    /\ LET cached == CacheGet(store, cache_item_key(item_id), now)
           l == [NoLoc EXCEPT !.op = "GET", !.id = item_id,
                              !.need = AckedPut(item_id),
                              !.gone = item_id \in ack.del,
                              !.eff = Effects(data, data, store, store', now),
                              !.log = <<"cache.get">>]
       IN  IF cached # NoVal
           THEN /\ last' = Resp(l, 200, TRUE, cached)
                /\ UNCHANGED <<pc, loc>>
           ELSE /\ loc' = [loc EXCEPT ![t] = l]
                /\ pc' = [pc EXCEPT ![t] = "g2"]
                /\ last' = last
    /\ UNCHANGED <<data, nextId, now, hist, ack>>

\* lines 181-183: item = repo.get(item_id); 404 when absent
get_item_repo(t) ==
    /\ pc[t] = "g2"
    /\ LET item == RepoGet(data, loc[t].id)
           l == [loc[t] EXCEPT !.log = Append(@, "repo.get")]
       IN  IF item = NoVal
           THEN /\ last' = Resp(l, 404, FALSE, NoVal)
                /\ pc' = [pc EXCEPT ![t] = "idle"]
                /\ loc' = [loc EXCEPT ![t] = NoLoc]
           ELSE /\ loc' = [loc EXCEPT ![t] = [l EXCEPT !.val = item]]
                /\ pc' = [pc EXCEPT ![t] = "g3"]
                /\ last' = last
    /\ UNCHANGED <<data, nextId, store, now, hist, ack, nreq>>

\* get_item_set with a plausible bug: the record read from the repository is
\* returned without being stored in the cache
get_item_set_without_set(t) ==
    /\ pc[t] = "g3"
    /\ last' = Resp(loc[t], 200, FALSE, loc[t].val)
    /\ pc' = [pc EXCEPT ![t] = "idle"]
    /\ loc' = [loc EXCEPT ![t] = NoLoc]
    /\ UNCHANGED <<data, nextId, store, now, hist, ack, nreq>>

\* lines 185-186: cache.set(key, item, ITEM_CACHE_TTL); return 200
get_item_set(t) ==
    /\ pc[t] = "g3"
    /\ store' = CacheSet(store, cache_item_key(loc[t].id), loc[t].val, ITEM_CACHE_TTL, now)
    /\ last' = Resp([loc[t] EXCEPT !.eff = @ \cup Effects(data, data, store, store', now),
                                   !.log = Append(@, "cache.set")],
                    200, FALSE, loc[t].val)
    /\ pc' = [pc EXCEPT ![t] = "idle"]
    /\ loc' = [loc EXCEPT ![t] = NoLoc]
    /\ UNCHANGED <<data, nextId, now, hist, ack, nreq>>

(* ---------------- PUT /items/<item_id> ---------------- *)
\* update_item_repo with a plausible bug: the handler returns right after
\* repo.update, without invalidating or re-priming the cache
update_item_repo_no_invalidation(t, item_id, patch) ==
    /\ Begin(t)
    /\ nreq' = nreq - 1
    /\ IF item_id \notin DOMAIN data
       THEN /\ last' = Resp([NoLoc EXCEPT !.op = "PUT", !.id = item_id,
                                          !.log = <<"repo.update">>],
                            404, FALSE, NoVal)
            /\ UNCHANGED <<data, store, loc, hist, ack>>
       ELSE LET item == RepoUpdateItem(data[item_id], patch)
            IN  /\ data' = [data EXCEPT ![item_id] = item]
                /\ hist' = Append(hist, data')
                /\ store' = [key \in DOMAIN store |->
                               [store[key] EXCEPT !.value = Touch(@, item_id, item)]]
                /\ loc' = [u \in Threads |-> [loc[u] EXCEPT !.val = Touch(@, item_id, item)]]
                /\ last' = Resp([NoLoc EXCEPT !.op = "PUT", !.id = item_id,
                                              !.eff = Effects(data, data', store, store', now),
                                              !.log = <<"repo.update">>],
                                200, FALSE, ItemVal(item_id, item, FALSE))
                /\ ack' = [ack EXCEPT !.any = Max(@, Len(hist')),
                                      !.put[item_id] = Max(@, Len(hist'))]
    /\ UNCHANGED <<nextId, now, pc>>

\* lines 197-199: updated = repo.update(item_id, patch); 404 when absent.
\* The stored dict is updated in place, so every alias of it changes with it.
update_item_repo(t, item_id, patch) ==
    /\ Begin(t)
    /\ nreq' = nreq - 1
    /\ IF item_id \notin DOMAIN data
       THEN /\ last' = Resp([NoLoc EXCEPT !.op = "PUT", !.id = item_id,
                                          !.log = <<"repo.update">>],
                            404, FALSE, NoVal)
            /\ UNCHANGED <<data, store, pc, loc, hist>>
       ELSE LET item == RepoUpdateItem(data[item_id], patch)
            IN  /\ data' = [data EXCEPT ![item_id] = item]
                /\ hist' = Append(hist, data')
                /\ store' = [key \in DOMAIN store |->
                               [store[key] EXCEPT !.value = Touch(@, item_id, item)]]
                /\ loc' = [u \in Threads |->
                             IF u = t
                             THEN [NoLoc EXCEPT !.op = "PUT", !.id = item_id,
                                                !.val = RepoUpdateReturn(item_id, item),
                                                !.wrote = Len(hist'),
                                                !.eff = Effects(data, data', store, store', now),
                                                !.log = <<"repo.update">>]
                             ELSE [loc[u] EXCEPT !.val = Touch(@, item_id, item)]]
                /\ pc' = [pc EXCEPT ![t] = "u2"]
                /\ last' = last
    /\ UNCHANGED <<nextId, now, ack>>

\* line 202: cache.delete(cache_item_key(item_id))
update_item_invalidate_item(t) ==
    /\ pc[t] = "u2"
    /\ store' = CacheDelete(store, cache_item_key(loc[t].id))
    /\ loc' = [loc EXCEPT ![t].eff = @ \cup Effects(data, data, store, store', now),
                          ![t].log = Append(@, "cache.delete")]
    /\ pc' = [pc EXCEPT ![t] = "u3"]
    /\ UNCHANGED <<data, nextId, now, hist, ack, last, nreq>>

\* update_item_invalidate_list with a plausible bug: the handler returns after
\* the invalidation and never re-primes the cache
update_item_invalidate_list_early_return(t) ==
    /\ pc[t] = "u3"
    /\ store' = CacheDelete(store, LIST_CACHE_KEY)
    /\ last' = Resp([loc[t] EXCEPT !.eff = @ \cup Effects(data, data, store, store', now),
                                   !.log = Append(@, "cache.delete")],
                    200, FALSE, loc[t].val)
    /\ ack' = [ack EXCEPT !.any = Max(@, loc[t].wrote),
                          !.put[loc[t].id] = Max(@, loc[t].wrote)]
    /\ pc' = [pc EXCEPT ![t] = "idle"]
    /\ loc' = [loc EXCEPT ![t] = NoLoc]
    /\ UNCHANGED <<data, nextId, now, hist, nreq>>

\* line 203: cache.delete(LIST_CACHE_KEY)
update_item_invalidate_list(t) ==
    /\ pc[t] = "u3"
    /\ store' = CacheDelete(store, LIST_CACHE_KEY)
    /\ loc' = [loc EXCEPT ![t].eff = @ \cup Effects(data, data, store, store', now),
                          ![t].log = Append(@, "cache.delete")]
    /\ pc' = [pc EXCEPT ![t] = "u4"]
    /\ UNCHANGED <<data, nextId, now, hist, ack, last, nreq>>

\* lines 206-208: cache.set(cache_item_key(item_id), updated, ITEM_CACHE_TTL); return 200
update_item_prime(t) ==
    /\ pc[t] = "u4"
    /\ store' = CacheSet(store, cache_item_key(loc[t].id), loc[t].val, ITEM_CACHE_TTL, now)
    /\ last' = Resp([loc[t] EXCEPT !.eff = @ \cup Effects(data, data, store, store', now),
                                   !.log = Append(@, "cache.set")],
                    200, FALSE, loc[t].val)
    /\ ack' = [ack EXCEPT !.any = Max(@, loc[t].wrote),
                          !.put[loc[t].id] = Max(@, loc[t].wrote)]
    /\ pc' = [pc EXCEPT ![t] = "idle"]
    /\ loc' = [loc EXCEPT ![t] = NoLoc]
    /\ UNCHANGED <<data, nextId, now, hist, nreq>>

(* ---------------- DELETE /items/<item_id> ---------------- *)
\* delete_item_repo with a plausible bug: the cache entry of the id is
\* invalidated before the 404 of an unknown id is returned
delete_item_repo_invalidates_unknown(t, item_id) ==
    /\ Begin(t)
    /\ nreq' = nreq - 1
    /\ IF item_id \notin DOMAIN data
       THEN /\ store' = CacheDelete(store, cache_item_key(item_id))
            /\ last' = Resp([NoLoc EXCEPT !.op = "DELETE", !.id = item_id,
                                          !.eff = Effects(data, data, store, store', now),
                                          !.log = <<"repo.delete", "cache.delete">>],
                            404, FALSE, NoVal)
            /\ UNCHANGED <<data, pc, loc, hist>>
       ELSE /\ data' = RepoDelete(data, item_id)
            /\ hist' = Append(hist, data')
            /\ loc' = [loc EXCEPT ![t] =
                         [NoLoc EXCEPT !.op = "DELETE", !.id = item_id,
                                       !.wrote = Len(hist'),
                                       !.eff = Effects(data, data', store, store, now),
                                       !.log = <<"repo.delete">>]]
            /\ pc' = [pc EXCEPT ![t] = "d2"]
            /\ UNCHANGED <<store, last>>
    /\ UNCHANGED <<nextId, now, ack>>

\* lines 213-215: deleted = repo.delete(item_id); 404 when absent
delete_item_repo(t, item_id) ==
    /\ Begin(t)
    /\ nreq' = nreq - 1
    /\ IF item_id \notin DOMAIN data
       THEN /\ last' = Resp([NoLoc EXCEPT !.op = "DELETE", !.id = item_id,
                                          !.log = <<"repo.delete">>],
                            404, FALSE, NoVal)
            /\ UNCHANGED <<data, pc, loc, hist>>
       ELSE /\ data' = RepoDelete(data, item_id)
            /\ hist' = Append(hist, data')
            /\ loc' = [loc EXCEPT ![t] =
                         [NoLoc EXCEPT !.op = "DELETE", !.id = item_id,
                                       !.wrote = Len(hist'),
                                       !.eff = Effects(data, data', store, store, now),
                                       !.log = <<"repo.delete">>]]
            /\ pc' = [pc EXCEPT ![t] = "d2"]
            /\ last' = last
    /\ UNCHANGED <<nextId, store, now, ack>>

\* line 218: cache.delete(cache_item_key(item_id))
delete_item_invalidate_item(t) ==
    /\ pc[t] = "d2"
    /\ store' = CacheDelete(store, cache_item_key(loc[t].id))
    /\ loc' = [loc EXCEPT ![t].eff = @ \cup Effects(data, data, store, store', now),
                          ![t].log = Append(@, "cache.delete")]
    /\ pc' = [pc EXCEPT ![t] = "d3"]
    /\ UNCHANGED <<data, nextId, now, hist, ack, last, nreq>>

\* lines 219-221: cache.delete(LIST_CACHE_KEY); return 200
delete_item_invalidate_list(t) ==
    /\ pc[t] = "d3"
    /\ store' = CacheDelete(store, LIST_CACHE_KEY)
    /\ last' = Resp([loc[t] EXCEPT !.eff = @ \cup Effects(data, data, store, store', now),
                                   !.log = Append(@, "cache.delete")],
                    200, FALSE, NoVal)
    /\ ack' = [ack EXCEPT !.any = Max(@, loc[t].wrote),
                          !.del = @ \cup {loc[t].id}]
    /\ pc' = [pc EXCEPT ![t] = "idle"]
    /\ loc' = [loc EXCEPT ![t] = NoLoc]
    /\ UNCHANGED <<data, nextId, now, hist, nreq>>

(* ---------------- POST /cache/clear ---------------- *)
\* lines 226-227
clear_cache(t) ==
    /\ Begin(t)
    /\ nreq' = nreq - 1
    /\ store' = CacheClear(store)
    /\ last' = Resp([NoLoc EXCEPT !.op = "CLEAR",
                                  !.eff = Effects(data, data, store, store', now),
                                  !.log = <<"cache.clear">>],
                    200, FALSE, NoVal)
    /\ UNCHANGED <<data, nextId, now, pc, loc, hist, ack>>

(* ---------------- the clock ---------------- *)
Tick ==
    /\ now + TickStep <= MaxClock
    /\ now' = now + TickStep
    /\ UNCHANGED <<data, nextId, store, pc, loc, hist, ack, last, nreq>>

(* ---------------- the service under concurrent requests ---------------- *)
Init ==
    /\ data = Empty
    /\ nextId = 0
    /\ store = Empty
    /\ now = 0
    /\ pc = [t \in Threads |-> "idle"]
    /\ loc = [t \in Threads |-> NoLoc]
    /\ hist = <<Empty>>
    /\ ack = NoAck
    /\ last = NoResp
    /\ prev = NoResp
    /\ known = {}
    /\ at = NoTimes
    /\ fresh = {}
    /\ nreq = MaxReqs
    /\ heap = Empty
    /\ held = [s \in Slots |-> NoHeld]
    /\ obs = NoObs
    /\ nops = 0
    /\ issued = <<>>
    /\ deleted = {}
    /\ lk = Unlocked
    /\ rpc = [t \in Threads |-> "idle"]
    /\ rl = [t \in Threads |-> NoCall]
    /\ res = NoRes
    /\ applied = {}
    /\ lops = 0
    /\ cobs = NoCacheObs
    /\ wr = [key \in CacheKeys |-> NoSet]
    /\ cops = 0
    /\ clk = Unlocked
    /\ cpc = [t \in Threads |-> "idle"]
    /\ cl = [t \in Threads |-> NoCacheCall]
    /\ cgot = NoGot
    /\ clops = 0
    /\ hpc = [t \in Threads |-> "idle"]
    /\ todo = [t \in Threads |-> <<>>]
    /\ stack = [t \in Threads |-> <<>>]
    /\ hleft = MaxHandlers

Step(t) ==
    \/ \E payload \in Payloads : create_item_repo(t, payload)
    \/ create_item_invalidate(t)
    \/ create_item_prime(t)
    \/ list_items_cache(t)
    \/ list_items_repo(t)
    \/ list_items_set(t)
    \/ \E item_id \in KnownIds : get_item_cache(t, item_id)
    \/ get_item_repo(t)
    \/ get_item_set(t)
    \/ \E item_id \in KnownIds, patch \in Patches : update_item_repo(t, item_id, patch)
    \/ update_item_invalidate_item(t)
    \/ update_item_invalidate_list(t)
    \/ update_item_prime(t)
    \/ \E item_id \in KnownIds : delete_item_repo(t, item_id)
    \/ delete_item_invalidate_item(t)
    \/ delete_item_invalidate_list(t)
    \/ clear_cache(t)

\* requests served by a pool of threads
Next ==
    \/ \E t \in Threads : /\ Step(t)
                          /\ known' = known \cup Disclosed(last'.val)
                          /\ UNCHANGED <<prev, at, fresh, callerVars, lockVars, cacheVars, threadVars>>
    \/ Tick /\ UNCHANGED <<known, prev, at, fresh, callerVars, lockVars, cacheVars, threadVars>>

Spec == Init /\ [][Next]_vars

\* every key the handlers use
HandlerCacheKeys == {LIST_CACHE_KEY} \cup {cache_item_key(k) : k \in Keys \cup {ForeignId}}

\* the keys cleared and not read since, no write request having come in between
Unread(keys, resp) ==
    IF resp.op = "CLEAR" THEN HandlerCacheKeys
    ELSE IF resp.op = "LIST" THEN keys \ {LIST_CACHE_KEY}
    ELSE IF resp.op = "GET" THEN keys \ {cache_item_key(resp.id)}
    ELSE {}

\* requests served one at a time; prev remembers the response before the last one
NextSeq ==
    \/ \E t \in {"t1"} : /\ Step(t)
                          /\ known' = known \cup Disclosed(last'.val)
                          /\ prev' = (IF pc'[t] = "idle" THEN last ELSE prev)
                          /\ at' = [sent |-> IF pc'[t] = "idle" THEN now ELSE at.sent,
                                    before |-> IF pc'[t] = "idle" THEN at.sent ELSE at.before,
                                    start |-> IF nreq' < nreq THEN now ELSE at.start]
                          /\ fresh' = (IF pc'[t] = "idle" THEN Unread(fresh, last') ELSE fresh)
                          /\ UNCHANGED <<callerVars, lockVars, cacheVars, threadVars>>
    \/ Tick /\ UNCHANGED <<known, prev, at, fresh, callerVars, lockVars, cacheVars, threadVars>>

InitSeq ==
    /\ data = Empty
    /\ nextId = 0
    /\ store = Empty
    /\ now = 0
    /\ pc = [t \in Threads |-> "idle"]
    /\ loc = [t \in Threads |-> NoLoc]
    /\ hist = <<Empty>>
    /\ ack = NoAck
    /\ last = NoResp
    /\ prev = NoResp
    /\ known = {}
    /\ at = NoTimes
    /\ fresh = {}
    /\ nreq = MaxSeqReqs
    /\ heap = Empty
    /\ held = [s \in Slots |-> NoHeld]
    /\ obs = NoObs
    /\ nops = 0
    /\ issued = <<>>
    /\ deleted = {}
    /\ lk = Unlocked
    /\ rpc = [t \in Threads |-> "idle"]
    /\ rl = [t \in Threads |-> NoCall]
    /\ res = NoRes
    /\ applied = {}
    /\ lops = 0
    /\ cobs = NoCacheObs
    /\ wr = [key \in CacheKeys |-> NoSet]
    /\ cops = 0
    /\ clk = Unlocked
    /\ cpc = [t \in Threads |-> "idle"]
    /\ cl = [t \in Threads |-> NoCacheCall]
    /\ cgot = NoGot
    /\ clops = 0
    /\ hpc = [t \in Threads |-> "idle"]
    /\ todo = [t \in Threads |-> <<>>]
    /\ stack = [t \in Threads |-> <<>>]
    /\ hleft = MaxHandlers

SpecSeq == InitSeq /\ [][NextSeq]_vars

(* ---------------- the repository called directly ---------------- *)
CallerIds == {uuid4(n) : n \in 1..nextId} \cup {ForeignId}
CallerDocs(name) ==
    {Doc(None, name), Doc(ForeignId, name)}
        \cup {Doc(None, name) @@ ("tags" :> r) : r \in NestedRefs}

CallBegin == nops < MaxRepoOps /\ nops' = nops + 1

\* a JSON array inside the payload is a fresh object of the caller
Allocate(doc) ==
    [r \in DOMAIN heap \cup {doc[f] : f \in {g \in DOMAIN doc : doc[g] \in NestedRefs}} |->
        IF r \in DOMAIN heap THEN heap[r] ELSE "[]"]
Fresh(doc) == \A f \in DOMAIN doc : doc[f] \notin DOMAIN heap

\* lines 91-96: InMemoryRepository.create
repo_create(s, payload) ==
    /\ CallBegin
    /\ nextId < MaxCreates
    /\ Fresh(payload)
    /\ LET id == uuid4(nextId + 1)
           item == RepoCreateItem(id, payload)
       IN  /\ data' = (id :> item) @@ data
           /\ nextId' = nextId + 1
           /\ heap' = Allocate(payload)
           /\ held' = [held EXCEPT ![s] = [val |-> RepoCreateReturn(id, item), src |-> "create"]]
           /\ obs' = [NoObs EXCEPT !.op = "create", !.key = id, !.payload = payload,
                                   !.ret = ItemOf(held'[s].val),
                                   !.stored = data'[id],
                                   !.got = ItemOf(RepoGet(data', id)),
                                   !.before = data]
           /\ issued' = Append(issued, ItemOf(held'[s].val)["id"])
    /\ UNCHANGED <<deleted, serviceVars, lockVars, cacheVars, threadVars>>

\* lines 98-101: InMemoryRepository.list_all
repo_list_all(s) ==
    /\ CallBegin
    /\ held' = [held EXCEPT ![s] = [val |-> RepoListAll(data), src |-> "list_all"]]
    /\ obs' = [NoObs EXCEPT !.op = "list_all"]
    /\ UNCHANGED <<data, nextId, heap, issued, deleted, serviceVars, lockVars, cacheVars, threadVars>>

\* lines 103-106: InMemoryRepository.get
repo_get(s, id) ==
    /\ CallBegin
    /\ held' = [held EXCEPT ![s] = [val |-> RepoGet(data, id), src |-> "get"]]
    /\ obs' = [NoObs EXCEPT !.op = "get", !.key = id, !.before = data,
                            !.got = IF id \in DOMAIN data THEN ItemOf(held'[s].val) ELSE Empty,
                            !.gone = id \in deleted]
    /\ UNCHANGED <<data, nextId, heap, issued, deleted, serviceVars, lockVars, cacheVars, threadVars>>

\* lines 108-115: InMemoryRepository.update
repo_update(s, id, patch) ==
    /\ CallBegin
    /\ Fresh(patch)
    /\ IF id \notin DOMAIN data
       THEN /\ held' = [held EXCEPT ![s] = NoHeld]
            /\ UNCHANGED <<data, heap>>
       ELSE LET item == RepoUpdateItem(data[id], patch)
            IN  /\ data' = [data EXCEPT ![id] = item]
                /\ heap' = Allocate(patch)
                /\ held' = [o \in Slots |->
                              IF o = s THEN [val |-> RepoUpdateReturn(id, item), src |-> "update"]
                              ELSE [held[o] EXCEPT !.val = Touch(@, id, item)]]
    /\ obs' = [NoObs EXCEPT !.op = "update", !.key = id, !.payload = patch,
                            !.before = data,
                            !.ret = IF id \in DOMAIN data THEN ItemOf(held'[s].val) ELSE Empty]
    /\ UNCHANGED <<nextId, issued, deleted, serviceVars, lockVars, cacheVars, threadVars>>

\* lines 117-122: InMemoryRepository.delete
repo_delete(id) ==
    /\ CallBegin
    /\ data' = (IF id \in DOMAIN data THEN RepoDelete(data, id) ELSE data)
    /\ obs' = [NoObs EXCEPT !.op = "delete", !.key = id, !.before = data,
                            !.ok = id \in DOMAIN data, !.gone = id \in deleted]
    /\ deleted' = (IF id \in DOMAIN data THEN deleted \cup {id} ELSE deleted)
    /\ UNCHANGED <<nextId, heap, held, issued, serviceVars, lockVars, cacheVars, threadVars>>

\* the caller assigns a field of a record it holds: rec[f] = v
caller_set_field(s, k, f, v) ==
    /\ CallBegin
    /\ k \in DOMAIN held[s].val.recs
    /\ LET rec == (f :> v) @@ held[s].val.recs[k]
           stored == held[s].val.live /\ k \in DOMAIN data
       IN  /\ data' = (IF stored THEN [data EXCEPT ![k] = rec] ELSE data)
           /\ held' = [o \in Slots |->
                         IF o = s THEN [held[s] EXCEPT !.val.recs[k] = rec]
                         ELSE IF stored THEN [held[o] EXCEPT !.val = Touch(@, k, rec)]
                         ELSE held[o]]
           /\ obs' = Mutation(s, "top", data', heap, held')
    /\ UNCHANGED <<nextId, heap, issued, deleted, serviceVars, lockVars, cacheVars, threadVars>>

\* the caller removes an entry of the mapping list_all returned: del listing[k]
caller_del_entry(s, k) ==
    /\ CallBegin
    /\ held[s].val.kind = "list"
    /\ k \in DOMAIN held[s].val.recs
    /\ held' = [held EXCEPT ![s].val.recs = [j \in DOMAIN @ \ {k} |-> @[j]]]
    /\ obs' = Mutation(s, "top", data, heap, held')
    /\ UNCHANGED <<data, nextId, heap, issued, deleted, serviceVars, lockVars, cacheVars, threadVars>>

\* the caller appends to a JSON array inside a record it holds: rec[f].append(1)
caller_append_nested(s, k, f) ==
    /\ CallBegin
    /\ k \in DOMAIN held[s].val.recs
    /\ f \in DOMAIN held[s].val.recs[k]
    /\ held[s].val.recs[k][f] \in DOMAIN heap
    /\ heap[held[s].val.recs[k][f]] = "[]"
    /\ heap' = [heap EXCEPT ![held[s].val.recs[k][f]] = "[1]"]
    /\ obs' = Mutation(s, "nested", data, heap', held)
    /\ UNCHANGED <<data, nextId, held, issued, deleted, serviceVars, lockVars, cacheVars, threadVars>>

NextRepo ==
    \/ \E s \in Slots, payload \in CallerDocs("a") : repo_create(s, payload)
    \/ \E s \in Slots : repo_list_all(s)
    \/ \E s \in Slots, id \in CallerIds : repo_get(s, id)
    \/ \E s \in Slots, id \in CallerIds, patch \in CallerDocs("b") : repo_update(s, id, patch)
    \/ \E id \in CallerIds : repo_delete(id)
    \/ \E s \in Slots, k \in Keys, f \in {"id", "name"} : caller_set_field(s, k, f, "c")
    \/ \E s \in Slots, k \in Keys : caller_del_entry(s, k)
    \/ \E s \in Slots, k \in Keys : caller_append_nested(s, k, "tags")

SpecRepo == Init /\ [][NextRepo]_vars

(* ---------------- the cache called directly ---------------- *)
CacheCall == cops < MaxCacheOps /\ cops' = cops + 1

\* lines 56-60: InMemoryCache.set
cache_set(key, value, ttl) ==
    /\ CacheCall
    /\ store' = CacheSet(store, key, value, TtlArg(ttl), now)
    /\ wr' = [wr EXCEPT ![key] = [on |-> TRUE, value |-> value, ttl |-> ttl, at |-> now,
                                  over |-> Found(store, key, now), read |-> FALSE]]
    /\ cobs' = [NoCacheObs EXCEPT !.op = "set", !.key = key, !.at = now, !.set = wr'[key],
                                  !.val = CacheGet(store', key, now),
                                  !.before = store, !.after = store']
    /\ UNCHANGED now

\* lines 62-72: InMemoryCache.get
cache_get(key) ==
    /\ CacheCall
    /\ store' = CacheGetStore(store, key, now)
    /\ cobs' = [NoCacheObs EXCEPT !.op = "get", !.key = key, !.at = now, !.set = wr[key],
                                  !.val = CacheGet(store, key, now),
                                  !.before = store, !.after = store']
    /\ wr' = (IF CacheGet(store, key, now) # NoVal THEN [wr EXCEPT ![key].read = TRUE] ELSE wr)
    /\ UNCHANGED now

\* lines 74-77: InMemoryCache.delete
cache_delete(key) ==
    /\ CacheCall
    /\ store' = CacheDelete(store, key)
    /\ wr' = [wr EXCEPT ![key] = NoSet]
    /\ cobs' = [NoCacheObs EXCEPT !.op = "delete", !.key = key, !.at = now,
                                  !.before = store, !.after = store']
    /\ UNCHANGED now

\* lines 79-81: InMemoryCache.clear
cache_clear ==
    /\ CacheCall
    /\ store' = CacheClear(store)
    /\ wr' = [key \in CacheKeys |-> NoSet]
    /\ cobs' = [NoCacheObs EXCEPT !.op = "clear", !.at = now,
                                  !.before = store, !.after = store']
    /\ UNCHANGED now

\* time() advances
cache_tick ==
    /\ now < MaxCacheClock
    /\ now' = now + 1
    /\ UNCHANGED <<store, cobs, wr, cops>>

CacheFrame ==
    UNCHANGED <<data, nextId, pc, loc, hist, ack, last, prev, known, nreq, at, fresh,
                callerVars, lk, rpc, rl, res, applied, lops, threadVars>>

NextCache ==
    \/ \E key \in CacheKeys, value \in CacheValues, ttl \in CacheTtls :
            cache_set(key, value, ttl) /\ CacheFrame
    \/ \E key \in CacheKeys : cache_get(key) /\ CacheFrame
    \/ \E key \in CacheKeys : cache_delete(key) /\ CacheFrame
    \/ cache_clear /\ CacheFrame
    \/ cache_tick /\ CacheFrame

SpecCache == Init /\ [][NextCache]_vars

(* ---------------- the cache called by concurrent threads ---------------- *)
\* set reads time() before it takes _lock (line 58); every other statement of
\* the four methods runs between the acquisition and the release of _lock.
\* get reads the entry (line 64) and then compares and deletes (lines 68-71).
LockTtls == {[given |-> TRUE, secs |-> 1], NoTtl}
LockKeys == {LIST_CACHE_KEY}
CacheCalls ==
    {[NoCacheCall EXCEPT !.op = "set", !.key = k, !.value = v,
                         !.expiry = CacheSet(Empty, k, v, TtlArg(ttl), now)[k].expiry] :
            k \in LockKeys, v \in CacheValues, ttl \in LockTtls}
        \cup {[NoCacheCall EXCEPT !.op = o, !.key = k] : o \in {"get", "delete"}, k \in LockKeys}
        \cup {[NoCacheCall EXCEPT !.op = "clear"]}

CacheLockFrame ==
    UNCHANGED <<data, nextId, pc, loc, hist, ack, last, prev, known, nreq, at, fresh,
                callerVars, lockVars, cacheVars, hpc, todo, stack, hleft>>

CacheLeave(t) ==
    /\ clk' = Release(clk, t)
    /\ cpc' = [cpc EXCEPT ![t] = "idle"]
    /\ cl' = [cl EXCEPT ![t] = NoCacheCall]

\* the calls of the other threads that wait for _lock
Rivals(t) == {[op |-> cl[u].op, key |-> cl[u].key] : u \in {x \in Threads \ {t} : cpc[x] = "enter"}}

\* a method is called; line 58 for set: expiry = time() + ttl_seconds ... else 0
cache_call(t, call) ==
    /\ cpc[t] = "idle"
    /\ clops < MaxCacheLockOps
    /\ clops' = clops + 1
    /\ cpc' = [cpc EXCEPT ![t] = "enter"]
    /\ cl' = [cl EXCEPT ![t] = call]
    /\ UNCHANGED <<store, now, clk, cgot>>

\* cache_enter with a plausible bug: the method body does not wait for _lock
cache_enter_unguarded(t) ==
    /\ cpc[t] = "enter"
    /\ clk' = Acquire(clk, t)
    /\ cpc' = [cpc EXCEPT ![t] = cl[t].op]
    /\ UNCHANGED <<store, now, cl, cgot, clops>>

\* with self._lock: (lines 59, 63, 75, 80)
cache_enter(t) ==
    /\ cpc[t] = "enter"
    /\ CanAcquire(clk, t)
    /\ clk' = Acquire(clk, t)
    /\ cpc' = [cpc EXCEPT ![t] = cl[t].op]
    /\ UNCHANGED <<store, now, cl, cgot, clops>>

\* line 60: self._store[key] = (value, expiry)
cache_set_body(t) ==
    /\ cpc[t] = "set"
    /\ store' = (cl[t].key :> [value |-> cl[t].value, expiry |-> cl[t].expiry]) @@ store
    /\ CacheLeave(t)
    /\ UNCHANGED <<now, cgot, clops>>

\* lines 64-66: entry = self._store.get(key); if not entry: return None
cache_get_read(t) ==
    /\ cpc[t] = "get"
    /\ IF cl[t].key \notin DOMAIN store
       THEN /\ cgot' = [NoGot EXCEPT !.by = t, !.key = cl[t].key, !.at = now,
                                     !.rivals = Rivals(t)]
            /\ CacheLeave(t)
       ELSE /\ cl' = [cl EXCEPT ![t].entry = store[cl[t].key]]
            /\ cpc' = [cpc EXCEPT ![t] = "get_check"]
            /\ UNCHANGED <<clk, cgot>>
    /\ UNCHANGED <<store, now, clops>>

\* lines 67-72: if expiry and time() > expiry: del self._store[key]; return None
\* and return value otherwise. del raises KeyError when the key is not there.
cache_get_check(t) ==
    /\ cpc[t] = "get_check"
    /\ LET key == cl[t].key
           entry == cl[t].entry
           got == [NoGot EXCEPT !.by = t, !.key = key, !.at = now, !.entry = entry,
                                !.rivals = Rivals(t)]
       IN  IF Expired((key :> entry), key, now)
           THEN IF key \in DOMAIN store
                THEN /\ store' = [k \in DOMAIN store \ {key} |-> store[k]]
                     /\ cgot' = [got EXCEPT !.purged = TRUE, !.removed = store[key]]
                ELSE /\ store' = store
                     /\ cgot' = [got EXCEPT !.raised = TRUE]
           ELSE /\ store' = store
                /\ cgot' = [got EXCEPT !.val = entry.value]
    /\ CacheLeave(t)
    /\ UNCHANGED <<now, clops>>

\* lines 76-77
cache_delete_body(t) ==
    /\ cpc[t] = "delete"
    /\ store' = CacheDelete(store, cl[t].key)
    /\ CacheLeave(t)
    /\ UNCHANGED <<now, cgot, clops>>

\* line 81
cache_clear_body(t) ==
    /\ cpc[t] = "clear"
    /\ store' = CacheClear(store)
    /\ CacheLeave(t)
    /\ UNCHANGED <<now, cgot, clops>>

\* time() advances
cache_lock_tick ==
    /\ now < MaxCacheClock
    /\ now' = now + 1
    /\ UNCHANGED <<store, clk, cpc, cl, cgot, clops>>

NextCacheLock ==
    \/ \E t \in Threads :
          \/ \E call \in CacheCalls : cache_call(t, call) /\ CacheLockFrame
          \/ cache_enter(t) /\ CacheLockFrame
          \/ cache_set_body(t) /\ CacheLockFrame
          \/ cache_get_read(t) /\ CacheLockFrame
          \/ cache_get_check(t) /\ CacheLockFrame
          \/ cache_delete_body(t) /\ CacheLockFrame
          \/ cache_clear_body(t) /\ CacheLockFrame
    \/ cache_lock_tick /\ CacheLockFrame

SpecCacheLock == Init /\ [][NextCacheLock]_vars

(* ---------------- the handlers' calls, lock by lock ---------------- *)
\* A handler is a sequence of calls of repo and cache methods; every method is
\* one with self._lock block of its component, entered and left by the thread.
CallOf(component, op) == [on |-> component, op |-> op]

\* the calls each path through a handler makes, in order (lines 142-227)
HandlerPaths ==
    { <<CallOf("repo", "create"), CallOf("cache", "delete"), CallOf("cache", "set")>>,
      <<CallOf("cache", "get")>>,
      <<CallOf("cache", "get"), CallOf("repo", "list_all"), CallOf("cache", "set")>>,
      <<CallOf("cache", "get"), CallOf("repo", "get")>>,
      <<CallOf("cache", "get"), CallOf("repo", "get"), CallOf("cache", "set")>>,
      <<CallOf("repo", "update")>>,
      <<CallOf("repo", "update"), CallOf("cache", "delete"), CallOf("cache", "delete"),
        CallOf("cache", "set")>>,
      <<CallOf("repo", "delete")>>,
      <<CallOf("repo", "delete"), CallOf("cache", "delete"), CallOf("cache", "delete")>>,
      <<CallOf("cache", "clear")>> }

\* NestedCalls with a plausible bug: the cache reads through to the repository
\* on a miss and the repository invalidates the cache on an update
NestedCalls_write_through(call) ==
    IF call = CallOf("cache", "get") THEN <<CallOf("repo", "get")>>
    ELSE IF call = CallOf("repo", "update") THEN <<CallOf("cache", "delete")>>
    ELSE <<>>

\* the calls a method makes inside its with self._lock block: no method of
\* InMemoryCache or InMemoryRepository calls the other component, or itself
NestedCalls(call) == <<>>

Frame(call) == [call |-> call, nested |-> NestedCalls(call)]

\* the calls the thread makes next: its innermost method's, or its handler's
Pending(t) == IF stack[t] = <<>> THEN todo[t] ELSE Head(stack[t]).nested

HandlerFrame ==
    UNCHANGED <<data, nextId, serviceVars, callerVars, rpc, rl, res, applied, lops,
                cacheVars, cpc, cl, cgot, clops>>

\* a request is dispatched to a thread
handler_begin(t, path) ==
    /\ hpc[t] = "idle"
    /\ hleft > 0
    /\ hleft' = hleft - 1
    /\ hpc' = [hpc EXCEPT ![t] = "run"]
    /\ todo' = [todo EXCEPT ![t] = path]
    /\ UNCHANGED <<lk, clk, stack>>

\* with self._lock: of the component the next call belongs to
call_enter(t) ==
    /\ hpc[t] = "run"
    /\ Pending(t) # <<>>
    /\ LET call == Head(Pending(t))
       IN  /\ IF call.on = "repo"
              THEN CanAcquire(lk, t) /\ lk' = Acquire(lk, t) /\ clk' = clk
              ELSE CanAcquire(clk, t) /\ clk' = Acquire(clk, t) /\ lk' = lk
           /\ IF stack[t] = <<>>
              THEN /\ todo' = [todo EXCEPT ![t] = Tail(@)]
                   /\ stack' = [stack EXCEPT ![t] = <<Frame(call)>>]
              ELSE /\ todo' = todo
                   /\ stack' = [stack EXCEPT ![t] =
                                    <<Frame(call), [Head(@) EXCEPT !.nested = Tail(@)]>>
                                        \o Tail(@)]
    /\ UNCHANGED <<hpc, hleft>>

\* the method's body is done and its with block releases the lock
call_leave(t) ==
    /\ stack[t] # <<>>
    /\ Head(stack[t]).nested = <<>>
    /\ IF Head(stack[t]).call.on = "repo"
       THEN lk' = Release(lk, t) /\ clk' = clk
       ELSE clk' = Release(clk, t) /\ lk' = lk
    /\ stack' = [stack EXCEPT ![t] = Tail(@)]
    /\ UNCHANGED <<hpc, todo, hleft>>

\* return jsonify(...)
handler_return(t) ==
    /\ hpc[t] = "run"
    /\ todo[t] = <<>>
    /\ stack[t] = <<>>
    /\ hpc' = [hpc EXCEPT ![t] = "idle"]
    /\ UNCHANGED <<lk, clk, todo, stack, hleft>>

\* the steps of a thread that runs a handler
Run(t) ==
    \/ call_enter(t) /\ HandlerFrame
    \/ call_leave(t) /\ HandlerFrame
    \/ handler_return(t) /\ HandlerFrame

NextHandlers ==
    \E t \in Threads :
        \/ \E path \in HandlerPaths : handler_begin(t, path) /\ HandlerFrame
        \/ Run(t)

\* every thread that can take a step is scheduled again
SpecHandlers == Init /\ [][NextHandlers]_vars /\ \A t \in Threads : WF_vars(Run(t))

(***************************************************************************)
(* Claims about the cache                                                  *)
(***************************************************************************)
\* C13: a get of a key whose last set had a ttl t > 0, with no delete or clear
\* since, returns the value set when less than t has elapsed since the set
\* and None when more than t has elapsed.
C13_TtlBoundsLifetime ==
    (cobs.op = "get" /\ cobs.set.on /\ ~Persistent(cobs.set.ttl)) =>
        /\ cobs.at - cobs.set.at < TtlArg(cobs.set.ttl) => cobs.val = cobs.set.value
        /\ cobs.at - cobs.set.at > TtlArg(cobs.set.ttl) => cobs.val = NoVal

\* C13's case: a get that came too late, after an earlier get had purged the entry
C13_Witness ==
    /\ cobs.op = "get" /\ cobs.set.on /\ ~Persistent(cobs.set.ttl)
    /\ cobs.at - cobs.set.at > TtlArg(cobs.set.ttl)
    /\ cobs.key \notin DOMAIN cobs.before

\* C14: a get of a key whose last set had ttl 0, a negative ttl or no ttl
\* argument, with no delete or clear since, returns the value set, however
\* much time has elapsed.
C14_NoTtlNeverExpires ==
    (cobs.op = "get" /\ cobs.set.on /\ Persistent(cobs.set.ttl)) =>
        cobs.val = cobs.set.value

\* C14's case: a get, at the end of the clock, of an entry set at its start with a negative ttl
C14_Witness ==
    /\ cobs.op = "get" /\ cobs.set.on /\ TtlArg(cobs.set.ttl) = -1
    /\ cobs.set.at = 0 /\ cobs.at = MaxCacheClock
    /\ cobs.val = cobs.set.value

\* C17: set overwrites whatever it finds under the key: right afterwards get
\* would return the new value, the entry's lifetime is that of the new ttl
\* alone, and every other key keeps its entry.
C17_SetOverwrites ==
    /\ cobs.op = "set" =>
          /\ cobs.val = cobs.set.value
          /\ cobs.after[cobs.key].expiry =
                (IF Persistent(cobs.set.ttl) THEN 0 ELSE cobs.at + TtlArg(cobs.set.ttl))
          /\ DOMAIN cobs.after = DOMAIN cobs.before \cup {cobs.key}
          /\ \A k \in DOMAIN cobs.after \ {cobs.key} : cobs.after[k] = cobs.before[k]
    /\ (cobs.op = "get" /\ cobs.set.on /\ cobs.set.over # "nothing") =>
          IF Persistent(cobs.set.ttl) THEN cobs.val = cobs.set.value
          ELSE /\ cobs.at - cobs.set.at < TtlArg(cobs.set.ttl) => cobs.val = cobs.set.value
               /\ cobs.at - cobs.set.at > TtlArg(cobs.set.ttl) => cobs.val = NoVal

\* C17's case: a set with ttl 1 has replaced an entry that had no expiry, and
\* a get two seconds later finds nothing
C17_Witness ==
    /\ cobs.op = "get" /\ cobs.set.on /\ cobs.set.over = "persistent"
    /\ TtlArg(cobs.set.ttl) = 1 /\ cobs.at - cobs.set.at = 2
    /\ cobs.val = NoVal

\* more than the ttl of the set w has elapsed at t
Lapsed(w, t) == w.on /\ ~Persistent(w.ttl) /\ t - w.at > TtlArg(w.ttl)

\* C26: an entry leaves the store only by clear, by delete of its key, or by
\* a get of its key after its ttl has elapsed; such a get removes that entry
\* alone and returns None.  Time passing and calls on other keys remove nothing.
C26_ExpiryOnlyOnGet ==
    [][/\ \A k \in DOMAIN store \ DOMAIN store' :
            /\ cops' > cops
            /\ \/ cobs'.op = "clear"
               \/ cobs'.op = "delete" /\ cobs'.key = k
               \/ cobs'.op = "get" /\ cobs'.key = k /\ Lapsed(wr[k], now)
       /\ (cops' > cops /\ cobs'.op = "get" /\ cobs'.key \in DOMAIN store
              /\ Lapsed(wr[cobs'.key], now))
            => /\ cobs'.val = NoVal
               /\ store' = [k \in DOMAIN store \ {cobs'.key} |-> store[k]]]_vars

\* C26's case: a get has purged the expired entry of its key, and the expired
\* entry of the other key is still stored
C26_Witness ==
    /\ cobs.op = "get" /\ Lapsed(cobs.set, cobs.at)
    /\ cobs.key \in DOMAIN cobs.before /\ cobs.key \notin DOMAIN store
    /\ \E k \in DOMAIN store : Lapsed(wr[k], now)

\* C29: a get that returns a value leaves the store as it was, and an entry
\* that has been read is no longer returned once its ttl has elapsed since
\* the set.
C29_HitLeavesStore ==
    /\ (cobs.op = "get" /\ cobs.val # NoVal) => cobs.after = cobs.before
    /\ (cobs.op = "get" /\ cobs.set.read /\ Lapsed(cobs.set, cobs.at)) => cobs.val = NoVal

\* C29's case: a get after the ttl of an entry that an earlier get had returned
C29_Witness ==
    cobs.op = "get" /\ cobs.set.read /\ Lapsed(cobs.set, cobs.at) /\ cobs.val = NoVal

\* C30: a get at the instant the ttl has exactly elapsed returns the value
\* and purges nothing; a get purges only when the clock is past the expiry.
C30_ExpiryIsStrict ==
    /\ (cobs.op = "get" /\ cobs.set.on /\ ~Persistent(cobs.set.ttl)
          /\ cobs.at - cobs.set.at = TtlArg(cobs.set.ttl))
          => (cobs.val = cobs.set.value /\ cobs.after = cobs.before)
    /\ (cobs.op = "get" /\ cobs.after # cobs.before)
          => cobs.at > cobs.before[cobs.key].expiry

\* C30's case: a get exactly ttl after the set
C30_Witness ==
    /\ cobs.op = "get" /\ cobs.set.on /\ TtlArg(cobs.set.ttl) = 2
    /\ cobs.at - cobs.set.at = 2 /\ cobs.val = cobs.set.value

\* C24: get's expiry check and purge are one atomic step with respect to every
\* other cache operation: between get's read of the entry and its return the
\* entry under the key is the one it read; the entry a get deletes is the
\* expired entry it read, never one a set of another thread has stored since,
\* and its del always finds the key; the value a get returns had not expired
\* at the time() the get compared.
C24_GetChecksAndPurgesAtomically ==
    /\ \A t \in Threads :
          cpc[t] = "get_check" =>
              cl[t].key \in DOMAIN store /\ store[cl[t].key] = cl[t].entry
    /\ ~cgot.raised
    /\ cgot.purged =>
          /\ cgot.removed = cgot.entry
          /\ cgot.entry.expiry # 0 /\ cgot.at > cgot.entry.expiry
    /\ cgot.val # NoVal =>
          /\ cgot.val = cgot.entry.value
          /\ cgot.entry.expiry = 0 \/ cgot.at <= cgot.entry.expiry

\* C24's case: a get has purged the expired entry it read while the other
\* thread waited for the lock with a set of the same key, whose value is not
\* in the store yet
C24_Witness ==
    /\ cgot.purged
    /\ cgot.key \notin DOMAIN store
    /\ \E u \in Threads \ {cgot.by} :
          cpc[u] = "enter" /\ [op |-> "set", key |-> cgot.key] \in cgot.rivals
              /\ cl[u].op = "set" /\ cl[u].key = cgot.key

\* C25: no thread holds the cache's lock and the repository's lock together,
\* a thread inside a method is inside that one method only and has no call
\* left to make there (it waits for no lock), and under fair scheduling
\* every handler that has started returns.
C25_LocksNeverNestHandlersReturn ==
    /\ [](\A t \in Threads :
            /\ ~(lk.owner = t /\ clk.owner = t)
            /\ stack[t] # <<>> => Len(stack[t]) = 1 /\ Head(stack[t]).nested = <<>>)
    /\ \A t \in Threads : (hpc[t] = "run") ~> (hpc[t] = "idle")

\* C25's case: one thread is inside a repository method, the other inside a
\* cache method, and the next call of each is to the component the other
\* holds the lock of
C25_Witness ==
    \E t, u \in Threads :
        /\ lk.owner = t /\ clk.owner = u /\ t # u
        /\ todo[t] # <<>> /\ Head(todo[t]).on = "cache"
        /\ todo[u] # <<>> /\ Head(todo[u]).on = "repo"
        /\ hleft = 0

(* ---------------- the repository called by concurrent threads ---------- *)
\* Every method body runs between the acquisition and the release of _lock.
\* item.update(patch) stores the patch's keys one after the other, so what
\* keeps a reader from seeing half of a patch is the lock and nothing else.
PatchA == ("name" :> "A") @@ ("age" :> "A")
PatchB == ("city" :> "B") @@ ("zip" :> "B")
LockPatches == {PatchA, PatchB}
LockIds == {uuid4(n) : n \in 1..nextId}
Calls ==
    {[NoCall EXCEPT !.op = "create", !.patch = Doc(None, "a")]}
        \cup {[NoCall EXCEPT !.op = "list_all"]}
        \cup {[NoCall EXCEPT !.op = o, !.id = i] : o \in {"get", "delete"}, i \in LockIds}
        \cup {[NoCall EXCEPT !.op = "update", !.id = i, !.patch = p, !.todo = DOMAIN p] :
                i \in LockIds, p \in LockPatches}

Leave(t) ==
    /\ lk' = Release(lk, t)
    /\ rpc' = [rpc EXCEPT ![t] = "idle"]
    /\ rl' = [rl EXCEPT ![t] = NoCall]

\* with self._lock: (lines 92, 99, 104, 109, 118)
repo_enter(t, call) ==
    /\ rpc[t] = "idle"
    /\ lops < MaxLockOps
    /\ call.op = "create" => nextId < MaxCreates
    /\ CanAcquire(lk, t)
    /\ lk' = Acquire(lk, t)
    /\ rpc' = [rpc EXCEPT ![t] = call.op]
    /\ rl' = [rl EXCEPT ![t] = call]
    /\ lops' = lops + 1
    /\ UNCHANGED <<data, nextId, res, applied, serviceVars, callerVars, cacheVars, threadVars>>

\* lines 93-96
repo_create_body(t) ==
    /\ rpc[t] = "create"
    /\ LET id == uuid4(nextId + 1)
           item == RepoCreateItem(id, rl[t].patch)
       IN  /\ data' = (id :> item) @@ data
           /\ nextId' = nextId + 1
           /\ res' = [op |-> "create", id |-> id, val |-> RepoCreateReturn(id, item)]
    /\ Leave(t)
    /\ UNCHANGED <<applied, lops, serviceVars, callerVars, cacheVars, threadVars>>

\* lines 100-101
repo_list_all_body(t) ==
    /\ rpc[t] = "list_all"
    /\ res' = [op |-> "list_all", id |-> None, val |-> RepoListAll(data)]
    /\ Leave(t)
    /\ UNCHANGED <<data, nextId, applied, lops, serviceVars, callerVars, cacheVars, threadVars>>

\* lines 105-106
repo_get_body(t) ==
    /\ rpc[t] = "get"
    /\ res' = [op |-> "get", id |-> rl[t].id, val |-> RepoGet(data, rl[t].id)]
    /\ Leave(t)
    /\ UNCHANGED <<data, nextId, applied, lops, serviceVars, callerVars, cacheVars, threadVars>>

\* lines 110-115: the lookup, then one key of the patch per step, then the copy
repo_update_body(t) ==
    /\ rpc[t] = "update"
    /\ IF rl[t].id \notin DOMAIN data
       THEN /\ res' = [op |-> "update", id |-> rl[t].id, val |-> NoVal]
            /\ Leave(t)
            /\ UNCHANGED <<data, applied>>
       ELSE IF rl[t].todo # {}
       THEN /\ \E f \in rl[t].todo :
                 /\ data' = [data EXCEPT ![rl[t].id] = RepoUpdateItem(@, (f :> rl[t].patch[f]))]
                 /\ rl' = [rl EXCEPT ![t].todo = @ \ {f}]
            /\ UNCHANGED <<lk, rpc, res, applied>>
       ELSE /\ res' = [op |-> "update", id |-> rl[t].id,
                       val |-> RepoUpdateReturn(rl[t].id, data[rl[t].id])]
            /\ applied' = applied \cup {[id |-> rl[t].id, patch |-> rl[t].patch]}
            /\ Leave(t)
            /\ data' = data
    /\ UNCHANGED <<nextId, lops, serviceVars, callerVars, cacheVars, threadVars>>

\* lines 119-122
repo_delete_body(t) ==
    /\ rpc[t] = "delete"
    /\ data' = (IF rl[t].id \in DOMAIN data THEN RepoDelete(data, rl[t].id) ELSE data)
    /\ res' = [op |-> "delete", id |-> rl[t].id, val |-> NoVal]
    /\ Leave(t)
    /\ UNCHANGED <<nextId, applied, lops, serviceVars, callerVars, cacheVars, threadVars>>

NextLock ==
    \E t \in Threads :
        \/ \E call \in Calls : repo_enter(t, call)
        \/ repo_create_body(t)
        \/ repo_list_all_body(t)
        \/ repo_get_body(t)
        \/ repo_update_body(t)
        \/ repo_delete_body(t)

SpecLock == Init /\ [][NextLock]_vars

(***************************************************************************)
(* Claims about the repository                                             *)
(***************************************************************************)
\* only part of patch p has been applied to rec
Torn(rec, p) ==
    \E f, g \in DOMAIN p :
        /\ f \in DOMAIN rec /\ rec[f] = p[f]
        /\ ~(g \in DOMAIN rec /\ rec[g] = p[g])

\* C8: repository calls of concurrent threads serialize: the stored record
\* reflects every update that has returned (patches with disjoint keys: none
\* is lost), and no get or list_all returns a record to which only part of
\* a patch has been applied.
C8_RepositoryCallsSerialize ==
    /\ \A a \in applied :
          a.id \in DOMAIN data => \A f \in DOMAIN a.patch : data[a.id][f] = a.patch[f]
    /\ res.op \in {"get", "list_all"} =>
          \A k \in DOMAIN res.val.recs : \A p \in LockPatches : ~Torn(res.val.recs[k], p)

\* C8's case: a get has returned a record that two updates have patched, and
\* the other thread is inside update with half of its patch stored
C8_Witness ==
    /\ res.op = "get"
    /\ \E k \in DOMAIN res.val.recs :
          \A p \in LockPatches : \A f \in DOMAIN p :
              f \in DOMAIN res.val.recs[k] /\ res.val.recs[k][f] = p[f]
    /\ Cardinality(applied) = 2
    /\ \E t \in Threads :
          rpc[t] = "update" /\ rl[t].todo # {} /\ rl[t].todo # DOMAIN rl[t].patch


\* C5 (as claimed): create stores the record under a generated identifier,
\* the id field of the stored and of the returned record is that identifier
\* whatever the payload contains, and get(identifier) right afterwards
\* returns the payload's fields plus the generated id.
C5_CreateStoresGeneratedId ==
    obs.op = "create" =>
        /\ obs.stored["id"] = obs.key
        /\ obs.ret["id"] = obs.key
        /\ obs.got = ("id" :> obs.key) @@ obs.payload

\* C6 (as claimed): mutating the record create returned changes nothing in
\* the repository.
C6_CreateReturnsCopy ==
    (obs.op = "mutate" /\ obs.src = "create") => ~obs.repoChanged

\* C7 (as claimed): mutating a record returned by get or list_all, or the
\* mapping list_all returned, changes neither the repository nor another
\* returned copy.
C7_ReadsReturnIndependentObjects ==
    (obs.op = "mutate" /\ obs.src \in {"get", "list_all"})
        => ~obs.repoChanged /\ ~obs.otherChanged

\* C7 (amended): assigning a field of a record returned by get or list_all,
\* or removing an entry of the mapping list_all returned, changes neither the
\* repository nor another returned copy.
C7_ReadsReturnShallowCopies ==
    (obs.op = "mutate" /\ obs.src \in {"get", "list_all"} /\ obs.depth = "top")
        => ~obs.repoChanged /\ ~obs.otherChanged

\* C7's case: the caller has changed a field of a record get returned
C7_Witness ==
    obs.op = "mutate" /\ obs.src = "get" /\ obs.depth = "top" /\ obs.selfChanged

\* C12 (as claimed): every identifier returned by create differs from every
\* identifier an earlier create returned, and create stores its record under
\* a key that held no record.
C12_CreatedIdsNeverRepeat ==
    /\ \A i, j \in 1..Len(issued) : i # j => issued[i] # issued[j]
    /\ obs.op = "create" => obs.key \notin DOMAIN obs.before

\* C15: update(id, patch) on an existing id stores and returns a record in
\* which every field of the patch has the patch's value and every other field
\* of the original record keeps its value, and changes no other record.
C15_UpdateMergesPatch ==
    (obs.op = "update" /\ obs.key \in DOMAIN obs.before) =>
        LET old == obs.before[obs.key]
            new == data[obs.key]
        IN  /\ DOMAIN data = DOMAIN obs.before
            /\ obs.ret = new
            /\ DOMAIN new = DOMAIN old \cup DOMAIN obs.payload
            /\ \A f \in DOMAIN obs.payload : new[f] = obs.payload[f]
            /\ \A f \in DOMAIN old \ DOMAIN obs.payload : new[f] = old[f]
            /\ \A k \in DOMAIN data \ {obs.key} : data[k] = obs.before[k]

\* C15's case: one of two records has been renamed by a patch that does not
\* mention its other fields
C15_Witness ==
    /\ obs.op = "update" /\ obs.key \in DOMAIN obs.before
    /\ Cardinality(DOMAIN data) = 2
    /\ obs.payload = Doc(None, "b")
    /\ obs.before[obs.key]["name"] = "a"
    /\ obs.ret["name"] = "b"

\* C16: once delete(id) has returned True, get(id) returns None and another
\* delete(id) returns False; delete of an identifier that is not stored
\* returns False and changes no record.
C16_DeletedStaysDeleted ==
    /\ (obs.op = "get" /\ obs.gone) => obs.got = Empty
    /\ (obs.op = "delete" /\ obs.gone) => ~obs.ok
    /\ (obs.op = "delete" /\ obs.key \notin DOMAIN obs.before) => (~obs.ok /\ data = obs.before)
    /\ (obs.op = "delete" /\ obs.ok) => obs.key \notin DOMAIN data
    /\ deleted \cap DOMAIN data = {}

\* C16's case: a second delete of an identifier, another record being stored
C16_Witness ==
    obs.op = "delete" /\ obs.gone /\ ~obs.ok /\ data # Empty

\* C20 (as claimed): every stored record has an "id" field equal to the
\* identifier it is stored under.
C20_StoredIdEqualsKey ==
    \A k \in DOMAIN data : "id" \in DOMAIN data[k] /\ data[k]["id"] = k

(***************************************************************************)
(* Claims about the handlers                                               *)
(***************************************************************************)
\* the record stored under id at some moment from mutation number n on
RecordSince(id, n) == {hist[i][id] : i \in {j \in n..Len(hist) : id \in DOMAIN hist[j]}}
\* the contents of the repository at some moment from mutation number n on
ListingSince(n) == {hist[i] : i \in n..Len(hist)}

\* C1 (as claimed): a GET /items/{id} that starts after a PUT /items/{id} has
\* returned success returns the record as it is after that update (or after a
\* later one), never an older value.
C1_GetAfterPutReturnsUpdated ==
    (last.op = "GET" /\ last.status = 200 /\ last.need > 0)
        => /\ DOMAIN last.val.recs = {last.id}
           /\ ItemOf(last.val) \in RecordSince(last.id, last.need)

\* C2 (as claimed): a GET /items/{id} that starts after DELETE /items/{id} has
\* returned 200 returns 404.
C2_GetAfterDeleteIs404 ==
    (last.op = "GET" /\ last.gone) => last.status = 404

\* C3 (as claimed): a GET /items that starts after a write handler has returned
\* success returns a listing that reflects that write: the contents of the
\* repository at some moment after the write.
C3_ListAfterWriteReflectsIt ==
    (last.op = "LIST" /\ last.need > 0) => last.val.recs \in ListingSince(last.need)

\* C4: when requests run one at a time, a GET /items/{id} that follows a
\* successful PUT /items/{id} returns 200 with the record the PUT returned,
\* which is the record the repository stored under id by that PUT's update,
\* whatever the cache held before.
C4_GetAfterPutSequential ==
    (last.op = "GET" /\ prev.op = "PUT" /\ prev.status = 200 /\ prev.id = last.id)
        => /\ last.status = 200
           /\ last.val.recs = prev.val.recs
           /\ last.need > 0
           /\ ItemOf(last.val) = hist[last.need][last.id]

\* C4's case: a GET served after a PUT of the same id, from the cache and from the repository
C4_Witness ==
    /\ last.op = "GET" /\ prev.op = "PUT" /\ prev.status = 200 /\ prev.id = last.id
    /\ last.status = 200
    /\ ItemOf(last.val)["name"] = "b"

\* the newest request ran wholly after the response before it, and started
\* within the item TTL of that response
Within(ttl) == pc["t1"] = "idle" /\ at.start - at.before < ttl

\* C11 (as claimed): the first GET /items/X after the POST that created X
\* reports cached: false.
C11_FirstGetAfterCreateUncached ==
    (pc["t1"] = "idle" /\ prev.op = "POST" /\ prev.status = 201
        /\ last.op = "GET" /\ last.id = prev.id /\ last.status = 200)
        => ~last.cached

\* C11 (amended): create primes the cache, so the GET /items/X that follows
\* the POST within the item TTL is a hit with the created record; a GET
\* /items/X served from the repository (cached: false) is followed, within
\* the item TTL, by a hit with the identical record.
C11_GetAfterCreateOrMissIsHit ==
    /\ (prev.op = "POST" /\ prev.status = 201 /\ last.op = "GET"
          /\ last.id = ItemOf(prev.val)["id"] /\ Within(ITEM_CACHE_TTL))
          => (last.status = 200 /\ last.cached /\ ItemOf(last.val) = ItemOf(prev.val))
    /\ (prev.op = "GET" /\ prev.status = 200 /\ ~prev.cached /\ last.op = "GET"
          /\ last.id = prev.id /\ Within(ITEM_CACHE_TTL))
          => (last.status = 200 /\ last.cached /\ ItemOf(last.val) = ItemOf(prev.val))

\* C11's case: a GET served from the repository and then, 31 s later, from the cache
C11_Witness ==
    /\ prev.op = "GET" /\ prev.status = 200 /\ ~prev.cached
    /\ last.op = "GET" /\ last.id = prev.id /\ last.cached
    /\ pc["t1"] = "idle" /\ at.start - at.before = TickStep

\* this step returns the response last'
Returns == pc'["t1"] = "idle" /\ (nreq' < nreq \/ pc["t1"] # "idle")

\* C18: POST /cache/clear empties the cache and leaves the repository as it
\* is; the next GET /items and the next GET /items/{id} of a stored id, no
\* write request having come in between, are served from the repository
\* (cached: false) with the records it holds.
C18_ClearThenReadsComeFromRepo ==
    [][/\ (Returns /\ last'.op = "CLEAR") => (store' = Empty /\ data' = data)
       /\ (Returns /\ last'.op = "LIST" /\ LIST_CACHE_KEY \in fresh)
             => (last'.status = 200 /\ ~last'.cached /\ last'.val.recs = data')
       /\ (Returns /\ last'.op = "GET" /\ cache_item_key(last'.id) \in fresh
               /\ last'.id \in DOMAIN data)
             => (last'.status = 200 /\ ~last'.cached
                   /\ ItemOf(last'.val) = data'[last'.id])]_vars

\* C18's case: after a clear, a GET /items and then a GET /items/{id} have
\* both been served from the repository
C18_Witness ==
    /\ pc["t1"] = "idle"
    /\ prev.op = "LIST" /\ ~prev.cached
    /\ last.op = "GET" /\ last.status = 200 /\ ~last.cached
    /\ fresh # {} /\ LIST_CACHE_KEY \notin fresh /\ cache_item_key(last.id) \notin fresh

\* C19 (as claimed): a step that mutates the repository changes no value the
\* cache holds.
C19_RepoStepLeavesCachedValues ==
    [][hist' # hist =>
         \A key \in DOMAIN store :
             key \in DOMAIN store' /\ store'[key].value = store[key].value]_vars

\* C21 (as claimed): when a POST /items returns 201, requests running one at
\* a time, items:list is absent, item:{generated id} holds the created record
\* with the item TTL, and the entry of no other key was written or removed by
\* the handler's last step (the only one that writes an item key).
C21_CreatePrimesOwnKey ==
    [][(Returns /\ last'.op = "POST" /\ last'.status = 201) =>
          LET key == cache_item_key(last'.id)
          IN  /\ LIST_CACHE_KEY \notin DOMAIN store'
              /\ key \in DOMAIN store'
              /\ ItemOf(store'[key].value) = data'[last'.id]
              /\ store'[key].expiry = now + ITEM_CACHE_TTL
              /\ \A k \in (DOMAIN store \cup DOMAIN store') \ {key} :
                    k \in DOMAIN store /\ k \in DOMAIN store' /\ store'[k] = store[k]]_vars

\* C22: when a PUT /items/{id} has returned 200, requests running one at a
\* time, items:list is absent and item:{id} holds the repository's record of
\* id with an expiry of the item TTL after the instant of the re-priming.
C22_UpdateReprimes ==
    (pc["t1"] = "idle" /\ last.op = "PUT" /\ last.status = 200) =>
        LET key == cache_item_key(last.id)
        IN  /\ LIST_CACHE_KEY \notin DOMAIN store
            /\ key \in DOMAIN store
            /\ last.id \in DOMAIN data
            /\ ItemOf(store[key].value) = data[last.id]
            /\ store[key].expiry = at.sent + ITEM_CACHE_TTL

\* C22's case: a PUT 31 s after the POST that had primed the entry
C22_Witness ==
    /\ pc["t1"] = "idle" /\ last.op = "PUT" /\ last.status = 200
    /\ prev.op = "POST" /\ prev.id = last.id /\ at.before = 0 /\ at.sent = TickStep
    /\ store[cache_item_key(last.id)].expiry = TickStep + ITEM_CACHE_TTL

\* the ttl the handlers give to a key
TtlOf(key) == IF key = LIST_CACHE_KEY THEN LIST_CACHE_TTL ELSE ITEM_CACHE_TTL

\* C23: every entry the handlers write expires: its expiry is the instant of
\* the set plus 60 for an item key and plus 30 for items:list, no entry has
\* expiry 0, and a value served from the cache was set at most its ttl before.
C23_HandlerEntriesExpire ==
    /\ [](\A key \in DOMAIN store :
            store[key].expiry # 0 /\ store[key].expiry <= now + TtlOf(key))
    /\ [][/\ \A key \in DOMAIN store' :
                \/ key \in DOMAIN store /\ store'[key].expiry = store[key].expiry
                \/ store'[key].expiry = now + TtlOf(key)
           /\ (nreq' < nreq /\ pc' = pc /\ last'.cached) =>
                LET hit == IF last'.op = "LIST" THEN LIST_CACHE_KEY
                           ELSE cache_item_key(last'.id)
                IN  hit \in DOMAIN store /\ now <= store[hit].expiry]_vars

\* C23's case: a listing served from the cache while an item entry with
\* another expiry is stored
C23_Witness ==
    /\ last.op = "LIST" /\ last.cached
    /\ LIST_CACHE_KEY \in DOMAIN store
    /\ \E key \in DOMAIN store \ {LIST_CACHE_KEY} :
          store[key].expiry - ITEM_CACHE_TTL # store[LIST_CACHE_KEY].expiry - LIST_CACHE_TTL

\* C27 (as claimed): between requests that run one at a time, every unexpired
\* entry item:k holds the record the repository stores under k, and an
\* unexpired items:list entry holds the repository's listing.
C27_CacheAgreesWithRepo ==
    pc["t1"] = "idle" =>
        \A key \in DOMAIN store :
            ~Expired(store, key, now) =>
                IF key = LIST_CACHE_KEY THEN store[key].value.recs = data
                ELSE key[2] \in DOMAIN data /\ ItemOf(store[key].value) = data[key[2]]

\* C28 (as claimed): when every handler has returned and the last response is
\* the 200 of a PUT /items/{id} whose record is still stored, the entry
\* item:{id} holds the repository's record of id.
C28_ConcurrentPutsLeaveFinalRecord ==
    ((\A t \in Threads : pc[t] = "idle") /\ last.op = "PUT" /\ last.status = 200
        /\ last.id \in DOMAIN data)
        => /\ cache_item_key(last.id) \in DOMAIN store
           /\ ItemOf(store[cache_item_key(last.id)].value) = data[last.id]

WriteOps == {"POST", "PUT", "DELETE"}
RepoMutations == {"repo.create", "repo.update", "repo.delete"}
CacheMutations == {"cache.delete", "cache.set"}
RepoFirst(log) ==
    \A i \in 1..Len(log) : log[i] \in CacheMutations => \E j \in 1..(i - 1) : log[j] \in RepoMutations
WriteLog(op) ==
    IF op = "POST" THEN <<"repo.create", "cache.delete", "cache.set">>
    ELSE IF op = "PUT" THEN <<"repo.update", "cache.delete", "cache.delete", "cache.set">>
    ELSE <<"repo.delete", "cache.delete", "cache.delete">>

\* C9: in every write handler the repository mutation precedes every cache
\* mutation of that handler, and a write handler that returns success has made
\* all of its cache calls before returning.
C9_RepoBeforeCacheBeforeReturn ==
    /\ \A t \in Threads : loc[t].op \in WriteOps => RepoFirst(loc[t].log)
    /\ last.op \in WriteOps => RepoFirst(last.log)
    /\ (last.op \in WriteOps /\ last.status \in {200, 201}) => last.log = WriteLog(last.op)

\* C9's case: a PUT has returned 200 after its four component calls
C9_Witness ==
    last.op = "PUT" /\ last.status = 200 /\ Len(last.log) = 4

====
